---------------------------- MODULE Spec2Model ----------------------------
(***************************************************************************)
(* A model of the ingestion-and-matching pipeline of hn-filtered:          *)
(*   - NewsFetcher (news_fetcher.py): the seen-URL set, the paginated      *)
(*     Hacker News fetch, the News API fetch and fetch_all_articles;       *)
(*   - ArticleMatcher (llm_processor.py): _get_questions, _verify_with_llm *)
(*     with its retry loop and response parser, process_article and the    *)
(*     process_articles generator;                                         *)
(*   - ArticleDatabase (database.py): save_article.                        *)
(* Python strings are sequences of one-character strings, so that strip,   *)
(* split, lower and int are computed and not assumed.                      *)
(***************************************************************************)
EXTENDS Integers, Sequences, FiniteSets, TLC

(***************************************************************************)
(* Python values and string functions                                      *)
(***************************************************************************)

\* Python's None, kept apart from every string (a string is a sequence of
\* one-character strings; this is a sequence holding one longer token).
None == <<"None">>

Whitespace == {" ", "\t"}

Digits == {"0", "1", "2", "3", "4", "5", "6", "7", "8", "9"}

\* str.strip(chars): drop the characters of chars at both ends.
RECURSIVE LStripChars(_, _)
LStripChars(s, chars) ==
    IF s = <<>> THEN <<>>
    ELSE IF Head(s) \in chars THEN LStripChars(Tail(s), chars)
    ELSE s

RECURSIVE RStripChars(_, _)
RStripChars(s, chars) ==
    IF s = <<>> THEN <<>>
    ELSE IF s[Len(s)] \in chars THEN RStripChars(SubSeq(s, 1, Len(s) - 1), chars)
    ELSE s

StripChars(s, chars) == RStripChars(LStripChars(s, chars), chars)

\* str.strip(): drop whitespace at both ends.
Strip(s) == StripChars(s, Whitespace \cup {"\n"})

\* str.lower() on the letters the model uses.
LowerChar(c) ==
    CASE c = "Y" -> "y"
      [] c = "E" -> "e"
      [] c = "S" -> "s"
      [] c = "N" -> "n"
      [] c = "O" -> "o"
      [] OTHER -> c

Lower(s) == [i \in 1..Len(s) |-> LowerChar(s[i])]

\* Index of the first occurrence of character c in s, 0 when there is none.
RECURSIVE FindFrom(_, _, _)
FindFrom(s, c, i) ==
    IF i > Len(s) THEN 0
    ELSE IF s[i] = c THEN i
    ELSE FindFrom(s, c, i + 1)

Find(s, c) == FindFrom(s, c, 1)

\* str.split(sep): every piece between separators, empty pieces included.
RECURSIVE Split(_, _)
Split(s, sep) ==
    LET k == Find(s, sep)
    IN  IF k = 0 THEN <<s>>
        ELSE <<SubSeq(s, 1, k - 1)>> \o Split(SubSeq(s, k + 1, Len(s)), sep)

\* str.split(sep, 1): at most one split, at the first separator.
SplitFirst(s, sep) ==
    LET k == Find(s, sep)
    IN  IF k = 0 THEN <<s>>
        ELSE <<SubSeq(s, 1, k - 1), SubSeq(s, k + 1, Len(s))>>

DigitValue(c) ==
    CASE c = "0" -> 0 [] c = "1" -> 1 [] c = "2" -> 2 [] c = "3" -> 3
      [] c = "4" -> 4 [] c = "5" -> 5 [] c = "6" -> 6 [] c = "7" -> 7
      [] c = "8" -> 8 [] c = "9" -> 9

\* int(s) succeeds on a non-empty run of digits (surrounding whitespace is
\* accepted by int itself); anything else raises ValueError.
IntParses(s) ==
    LET t == Strip(s)
    IN  t # <<>> /\ \A i \in 1..Len(t) : t[i] \in Digits

RECURSIVE IntOfDigits(_)
IntOfDigits(t) ==
    IF t = <<>> THEN 0
    ELSE 10 * IntOfDigits(SubSeq(t, 1, Len(t) - 1)) + DigitValue(t[Len(t)])

IntValue(s) == IntOfDigits(Strip(s))

\* Python list indexing with a non-negative or a negative index (0-based);
\* the caller guarantees -Len(l) <= i < Len(l).
PyIndex(l, i) == IF i < 0 THEN l[Len(l) + i + 1] ELSE l[i + 1]

Range(f) == {f[i] : i \in DOMAIN f}


(***************************************************************************)
(* Bounds of the model                                                     *)
(***************************************************************************)

\* config.MAX_ARTICLES_PER_SOURCE (config.py line 39) is 20; the model keeps
\* the truncation and scales its length down so that lists longer than the
\* limit are reachable.
MAX_ARTICLES_PER_SOURCE == 2

\* The pagination ceiling of fetch_hacker_news ("if page >= 5").
MAX_PAGES == 5

\* Largest nbHits and nbPages the upstream reports: both above what
\* MAX_PAGES pages of one hit can hold, so that the upstream can always
\* announce more.
MaxNbHits == 6

MaxNbPages == 6

\* Most articles in one News API response.
MaxNewsArticles == 1

(***************************************************************************)
(* State                                                                   *)
(***************************************************************************)

VARIABLES
    \* ---- NewsFetcher ----
    sources,        \* config.SOURCES
    seen_urls,      \* NewsFetcher._seen_urls
    fpc,            \* position of the fetcher: "idle", "sources", "paging", "collected"
    src_idx,        \* fetch_all_articles: index of the next source of the for loop
    all_articles,   \* fetch_all_articles: all_articles (the returned list once idle)
    page,           \* fetch_hacker_news: page
    all_stories,    \* fetch_hacker_news: all_stories
    data,           \* fetch_hacker_news: data, the last response of the while loop
                    \* (the number of its hits, its nbHits and nbPages)
    hn_articles,    \* the list the last fetch_hacker_news call returned
    hn_status,      \* "none", "running", "ok" (returned normally) or "failed" (except branch)
    seen_at_call,   \* history: _seen_urls when the last fetch_hacker_news call began
    seen_at_cycle   \* history: _seen_urls when the last fetch_all_articles call began

fetch_vars == <<sources, seen_urls, fpc, src_idx, all_articles, page, all_stories,
                data, hn_articles, hn_status, seen_at_call, seen_at_cycle>>

\* ---- ArticleMatcher and ArticleDatabase ----
VARIABLES
    llm_type,       \* config.LLM_TYPE
    input_text,     \* ArticleMatcher.input_text
    db,             \* the url column of the articles table
    mpc,            \* position of the matcher: "idle", "exists", "verify",
                    \* "verified", "exhausted", "raised"
    caller,         \* who called _verify_with_llm: "pipeline" or "direct"
    articles,       \* process_articles: the input list
    art_idx,        \* process_articles: index of the current article
    questions,      \* _verify_with_llm: questions
    attempt,        \* _verify_with_llm: attempt
    last_exception, \* _verify_with_llm: last_exception (its message, or None)
    response_text,  \* _verify_with_llm: response_text of the attempt that answered
    verdicts,       \* the list the last _verify_with_llm call returned
    attempt_log,    \* history: the outcome of each attempt of the current call
    sleeps,         \* history: the time.sleep durations of the current call
    trace,          \* history: what happened to each article of the current run:
                    \* url, exists (whether the url was stored: when the
                    \* existence check skipped the article, else when
                    \* process_article came to save and return), asked
                    \* (_verify_with_llm was called), requests (the requests
                    \* that call sent), relevant (number of relevant verdicts),
                    \* raised (the except branch of process_article ran), saved
                    \* (save_article stored or found the url), yielded
    yielded         \* the articles process_articles has yielded in the current run

match_vars == <<llm_type, input_text, db, mpc, caller, articles, art_idx, questions,
                attempt, last_exception, response_text, verdicts, attempt_log,
                sleeps, trace, yielded>>

vars == <<fetch_vars, match_vars>>

(***************************************************************************)
(* NewsFetcher (news_fetcher.py)                                           *)
(***************************************************************************)

\* config.SOURCES as shipped.
SOURCES == <<"hacker-news">>

\* config.SOURCES with a News API source added before it.
SOURCES_WITH_NEWS == <<"news-a", "hacker-news">>

\* Upstream Algolia hits: url (None when the story has no link) and num_comments.
Hits ==
    { [url |-> <<"a">>,      num_comments |-> 1],
      [url |-> <<" ", "a">>, num_comments |-> 3],
      [url |-> <<"b">>,      num_comments |-> 2],
      [url |-> <<"c">>,      num_comments |-> 2],
      [url |-> None,         num_comments |-> 3] }

\* One page of the Algolia response: the model returns at most one hit a page.
HitPages == {<<>>} \cup { <<h>> : h \in Hits }

\* Upstream News API articles: url (None for a JSON null) and whether the
\* "title" key is present.
NewsItems ==
    { [url |-> <<"a">>,      has_title |-> TRUE],
      [url |-> <<"b", " ">>, has_title |-> TRUE],
      [url |-> <<" ">>,      has_title |-> TRUE],
      [url |-> None,         has_title |-> TRUE],
      [url |-> <<"c">>,      has_title |-> FALSE] }

\* The nbHits and nbPages values of a response: none, some, more than the
\* model ever retrieves.
NbHitsChoices == {0, 3, MaxNbHits}

NbPagesChoices == {1, 3, MaxNbPages}

NewsResponses ==
    UNION { [1..n -> NewsItems] : n \in 0..MaxNewsArticles }

\* fetch_hacker_news before the first response of its while loop.
NoData == [hits |-> 0, nbHits |-> 0, nbPages |-> 0]

\* The normalisation of _mark_if_new: (url or "").strip()
Normalize(url) == Strip(IF url = None THEN <<>> ELSE url)

\* Python truthiness of an optional string.
Truthy(url) == url # None /\ url # <<>>

\* Mutant of MarkIfNew: the membership test is left out.
MarkIfNewUnchecked(seen, url) ==
    LET normalized == Normalize(url)
    IN  IF normalized = <<>> THEN [new |-> FALSE, seen |-> seen]
        ELSE [new |-> TRUE, seen |-> seen \cup {normalized}]

\* Mutant of MarkIfNew: the membership test is on the URL as given, not on
\* the trimmed one.
MarkIfNewRaw(seen, url) ==
    LET normalized == Normalize(url)
    IN  IF normalized = <<>> THEN [new |-> FALSE, seen |-> seen]
        ELSE IF url \in seen THEN [new |-> FALSE, seen |-> seen]
        ELSE [new |-> TRUE, seen |-> seen \cup {normalized}]

\* _mark_if_new(url) on the seen set `seen`: the returned flag and the new set.
MarkIfNew(seen, url) ==
    LET normalized == Normalize(url)
    IN  IF normalized = <<>> THEN [new |-> FALSE, seen |-> seen]
        ELSE IF normalized \in seen THEN [new |-> FALSE, seen |-> seen]
        ELSE [new |-> TRUE, seen |-> seen \cup {normalized}]

\* The for loop of fetch_news_api_articles over the response's articles:
\* the results so far, the seen set, and whether article["title"] raised.
RECURSIVE NewsLoop(_, _, _, _)
NewsLoop(items, source, seen, results) ==
    IF items = <<>> THEN [raised |-> FALSE, seen |-> seen, results |-> results]
    ELSE LET m == MarkIfNew(seen, Head(items).url)
         IN  IF ~m.new THEN NewsLoop(Tail(items), source, seen, results)
             ELSE IF ~Head(items).has_title
                  THEN [raised |-> TRUE, seen |-> m.seen, results |-> results]
                  ELSE NewsLoop(Tail(items), source, m.seen,
                                Append(results, [url |-> Head(items).url,
                                                 source |-> source]))

\* list.sort(key=num_comments, reverse=True): a stable sort, so stories with
\* equal counts keep their order of arrival.
RECURSIVE InsertDesc(_, _)
InsertDesc(sorted, x) ==
    IF sorted = <<>> THEN <<x>>
    ELSE IF Head(sorted).num_comments >= x.num_comments
         THEN <<Head(sorted)>> \o InsertDesc(Tail(sorted), x)
         ELSE <<x>> \o sorted

\* Mutant of SortByComments: the upstream order is kept.
Unsorted(stories) == stories

RECURSIVE SortByComments(_)
SortByComments(stories) ==
    IF stories = <<>> THEN <<>>
    ELSE InsertDesc(SortByComments(SubSeq(stories, 1, Len(stories) - 1)),
                    stories[Len(stories)])

\* [s for s in all_stories if s.get("url")]
Qualifying(stories) == SelectSeq(stories, LAMBDA s : Truthy(s.url))

\* qualifying_stories[:config.MAX_ARTICLES_PER_SOURCE]
Truncate(stories) ==
    SubSeq(stories, 1, IF Len(stories) < MAX_ARTICLES_PER_SOURCE
                       THEN Len(stories) ELSE MAX_ARTICLES_PER_SOURCE)

\* The for loop of fetch_hacker_news over articles_to_process.
RECURSIVE HNLoop(_, _, _)
HNLoop(items, seen, results) ==
    IF items = <<>> THEN [seen |-> seen, results |-> results]
    ELSE LET m == MarkIfNew(seen, Head(items).url)
         IN  IF ~m.new THEN HNLoop(Tail(items), seen, results)
             ELSE HNLoop(Tail(items), m.seen,
                         Append(results, [url |-> Head(items).url,
                                          source |-> "hacker-news",
                                          hn_comments |-> Head(items).num_comments]))

\* Mutant of HNCollect: the list is truncated after the dedup loop, so that
\* lower-ranked stories take the place of the ones the loop passes over.
HNCollectDedupFirst(stories, seen) ==
    LET r == HNLoop(Qualifying(SortByComments(stories)), seen, <<>>)
    IN  [seen |-> r.seen, results |-> Truncate(r.results)]

\* Mutant of HNCollect: the list is truncated before it is sorted.
HNCollectTruncatedFirst(stories, seen) ==
    HNLoop(SortByComments(Truncate(Qualifying(stories))), seen, <<>>)

\* Lines 108-153 of fetch_hacker_news: sort, filter, truncate, dedup.
HNCollect(stories, seen) ==
    HNLoop(Truncate(Qualifying(SortByComments(stories))), seen, <<>>)

FetchInit ==
    /\ seen_urls = {}
    /\ fpc = "idle"
    /\ src_idx = 1
    /\ all_articles = <<>>
    /\ page = 0
    /\ all_stories = <<>>
    /\ data = NoData
    /\ hn_articles = <<>>
    /\ hn_status = "none"
    /\ seen_at_call = {}
    /\ seen_at_cycle = {}

\* fetch_all_articles is called (app.py builds a new NewsFetcher for each
\* run; the Telegram bot keeps self.fetcher for every /fetch command, which
\* is the case modelled: the seen set is whatever earlier calls left).
FetchAllArticles ==
    /\ fpc = "idle"
    /\ fpc' = "sources"
    /\ src_idx' = 1
    /\ all_articles' = <<>>
    /\ seen_at_cycle' = seen_urls
    \* the previous call's locals and results are gone
    /\ page' = 0
    /\ all_stories' = <<>>
    /\ data' = NoData
    /\ hn_articles' = <<>>
    /\ hn_status' = "none"
    /\ seen_at_call' = seen_urls
    /\ UNCHANGED <<sources, seen_urls>>
    /\ UNCHANGED match_vars

\* One iteration of "for source in config.SOURCES" for a News API source:
\* fetch_news_api_articles(source), failing or answering with `resp`.
FetchNewsApiArticles ==
    /\ fpc = "sources"
    /\ src_idx <= Len(sources)
    /\ sources[src_idx] # "hacker-news"
    /\ \/ \* requests.get, raise_for_status or json() raises: return []
          /\ UNCHANGED <<seen_urls, all_articles>>
       \/ \E resp \in NewsResponses :
             LET r == NewsLoop(resp, sources[src_idx], seen_urls, <<>>)
             IN  /\ seen_urls' = r.seen
                 /\ all_articles' = IF r.raised THEN all_articles
                                    ELSE all_articles \o r.results
    /\ src_idx' = src_idx + 1
    /\ UNCHANGED <<sources, fpc, page, all_stories, data, hn_articles, hn_status,
                   seen_at_call, seen_at_cycle>>
    /\ UNCHANGED match_vars

\* One iteration of "for source in config.SOURCES" for "hacker-news": skipped.
SkipHackerNewsSource ==
    /\ fpc = "sources"
    /\ src_idx <= Len(sources)
    /\ sources[src_idx] = "hacker-news"
    /\ src_idx' = src_idx + 1
    /\ UNCHANGED <<sources, seen_urls, fpc, all_articles, page, all_stories,
                   data, hn_articles, hn_status, seen_at_call, seen_at_cycle>>
    /\ UNCHANGED match_vars

\* fetch_all_articles calls fetch_hacker_news after the loop: lines 79-81.
FetchHackerNews ==
    /\ fpc = "sources"
    /\ src_idx > Len(sources)
    /\ fpc' = "paging"
    /\ page' = 0
    /\ all_stories' = <<>>
    /\ data' = NoData
    /\ hn_articles' = <<>>
    /\ hn_status' = "running"
    /\ seen_at_call' = seen_urls
    /\ UNCHANGED <<sources, seen_urls, src_idx, all_articles, seen_at_cycle>>
    /\ UNCHANGED match_vars

\* Mutant of StopAfterPage: the loop never asks for a second page.
StopAfterFirstPage(n, nbHits, pg, nbPages) == TRUE

\* Line 99: "if len(all_stories) >= total_hits or page >= nbPages - 1: break",
\* for n accumulated stories after the response for page pg.
StopAfterPage(n, nbHits, pg, nbPages) == n >= nbHits \/ pg >= nbPages - 1

\* Mutant of CeilingHit: the test is off by one.
CeilingHitLate(pg) == pg > MAX_PAGES

\* Line 105: "if page >= 5: break", page being the next page.
CeilingHit(pg) == pg >= MAX_PAGES

\* One iteration of the while loop: the request for `page` answers with
\* hits, nbHits and nbPages.
FetchPage ==
    /\ fpc = "paging"
    /\ \E hits \in HitPages, nbHits \in NbHitsChoices, nbPages \in NbPagesChoices :
          /\ data' = [hits |-> Len(hits), nbHits |-> nbHits, nbPages |-> nbPages]
          /\ IF hits = <<>>
             THEN /\ fpc' = "collected"
                  /\ UNCHANGED <<page, all_stories>>
             ELSE LET stories == all_stories \o hits
                  IN  /\ all_stories' = stories
                      /\ IF StopAfterPage(Len(stories), nbHits, page, nbPages)
                         THEN /\ fpc' = "collected"
                              /\ page' = page
                         ELSE /\ page' = page + 1
                              /\ fpc' = IF CeilingHit(page + 1) THEN "collected"
                                        ELSE "paging"
    /\ UNCHANGED <<sources, seen_urls, src_idx, all_articles, hn_articles, hn_status,
                   seen_at_call, seen_at_cycle>>
    /\ UNCHANGED match_vars

\* Mutant of FetchPageFails: when a request raises, the stories of the pages
\* retrieved so far are processed and returned.
FetchPageFailsPartial ==
    /\ fpc = "paging"
    /\ fpc' = "idle"
    /\ LET r == HNCollect(all_stories, seen_urls)
       IN  /\ seen_urls' = r.seen
           /\ hn_articles' = r.results
           /\ all_articles' = all_articles \o r.results
    /\ hn_status' = "failed"
    /\ page' = 0
    /\ data' = NoData
    /\ UNCHANGED <<sources, src_idx, all_stories, seen_at_call, seen_at_cycle>>
    /\ UNCHANGED match_vars

\* The request of the while loop raises (network, HTTP status, JSON): the
\* except branch returns [], and fetch_all_articles returns all_articles.
FetchPageFails ==
    /\ fpc = "paging"
    /\ fpc' = "idle"
    /\ hn_articles' = <<>>
    /\ hn_status' = "failed"
    /\ page' = 0
    /\ data' = NoData
    /\ UNCHANGED <<sources, seen_urls, src_idx, all_articles, all_stories,
                   seen_at_call, seen_at_cycle>>
    /\ UNCHANGED match_vars

\* Lines 108-153 of fetch_hacker_news, then lines 181-183 of
\* fetch_all_articles: extend all_articles and return it.
FetchHackerNewsReturns ==
    /\ fpc = "collected"
    /\ LET r == HNCollect(all_stories, seen_urls)
       IN  /\ seen_urls' = r.seen
           /\ hn_articles' = r.results
           /\ all_articles' = all_articles \o r.results
    /\ hn_status' = "ok"
    /\ fpc' = "idle"
    /\ page' = 0
    /\ data' = NoData
    /\ UNCHANGED <<sources, src_idx, all_stories, seen_at_call, seen_at_cycle>>
    /\ UNCHANGED match_vars

\* The steps of the fetcher that the shipped configuration can take.
FetchNext ==
    \/ FetchAllArticles
    \/ SkipHackerNewsSource
    \/ FetchHackerNews
    \/ FetchPage
    \/ FetchPageFails
    \/ FetchHackerNewsReturns


(***************************************************************************)
(* ArticleMatcher (llm_processor.py) and ArticleDatabase (database.py)     *)
(***************************************************************************)

\* retry_count, the default of _verify_with_llm's parameter.
RETRY_COUNT == 3

\* Most articles in the list handed to process_articles.
MaxArticles == 2


LLMTypes == {"groq", "gemini", "ollama"}

\* Topic texts handed to ArticleMatcher(input_text=...).
InputTexts ==
    { <<>>,                                           \* ""
      <<"-", " ", "a">>,                              \* "- a"
      <<"-", " ", "a", "\n", "-", " ", "b">>,         \* "- a\n- b"
      <<"a", "\n", "\n", " ", "b", " ">>,             \* "a\n\n b "
      <<"-", " ", "a", "\n", "-", " ", "a">>,         \* "- a\n- a"
      <<"-", " ", "a", "-", "\n", "-">> }             \* "- a-\n-"

\* Topic lists of a direct _verify_with_llm call.
DirectQuestions == { <<>>, << <<"a">> >>, << <<"a">>, <<"b">> >> }

ArticleURLs == { <<"a">>, <<"b">> }

ArticleLists ==
    UNION { [1..n -> {[url |-> u] : u \in ArticleURLs}] : n \in 0..MaxArticles }

\* Texts the backend answers with.
Responses ==
    { <<"\n", " ", "\n">>,                                        \* blank lines only
      <<"1", ".", " ", "y", "e", "s">>,                           \* "1. yes"
      <<"1", ".", " ", "y", "e", "s", "\n",
        "2", ".", " ", "Y", "E", "S">>,                           \* "1. yes\n2. YES"
      <<" ", "2", ".", "Y", "e", "s", " ">>,                      \* " 2.Yes "
      <<"3", ".", " ", "Y", "E", "S">>,                           \* "3. YES"
      <<"0", ".", " ", "y", "e", "s", "\n",
        "1", ".", " ", "n", "o">>,                                \* "0. yes\n1. no"
      <<"1", "0", ".", " ", "y", "e", "s">>,                      \* "10. yes"
      <<"1", ".", " ", "y", "e", "s", ".">>,                      \* "1. yes."
      <<"1", " ", "y", "e", "s">>,                                \* "1 yes"
      <<"1", "x", ".", " ", "y", "e", "s">>,                      \* "1x. yes"
      <<"y", "e", "s">>,                                          \* "yes"
      <<"2", ".", " ", "y", "e", "s", "\n",
        "2", ".", " ", "n", "o">>,                                \* "2. yes\n2. no"
      <<"1", ".", " ", "Y", "E", "S", "\n",
        "2", ".", " ", "y", "e", "s", ".">>,                      \* "1. YES\n2. yes."
      <<"1", ".", "\n", "2", ".", " ", "y">>,                     \* "1.\n2. y"
      <<"1", ".", " ", "y", "e", "s", " ", "-", " ", "b", "\n",
        "2", ".", " ", "n", "o">> }                               \* "1. yes - b\n2. no"

Yes == <<"y", "e", "s">>

No == <<"n", "o">>

ErrorPrefix == <<"E", "r", "r", "o", "r", ":", " ">>

UnknownError == <<"U", "n", "k", "n", "o", "w", "n">>

\* What one attempt can end in, by backend: a response text, or an exception.
\*   groq:   "429" an HTTPError with status 429, "http" any other
\*           RequestException, "other" any other exception (a KeyError on the
\*           JSON body, response_text None);
\*   gemini: "quota" a ResourceExhausted whose message has "quota",
\*           "exhausted" one whose message has not, "other" any other exception;
\*   ollama: __init__ sets no llm_url for it, so reading self.llm_url raises
\*           AttributeError ("attr") before any request is sent.
AttemptOutcomes(t) ==
    CASE t = "groq"   -> {"text", "429", "http", "other"}
      [] t = "gemini" -> {"text", "quota", "exhausted", "other"}
      [] t = "ollama" -> {"attr"}

\* str(e) of the exception of each outcome.
Message(kind) ==
    CASE kind = "429"       -> <<"4", "2", "9">>
      [] kind = "http"      -> <<"5", "0", "0">>
      [] kind = "quota"     -> <<"q", "u", "o", "t", "a">>
      [] kind = "exhausted" -> <<"r", "a", "t", "e">>
      [] kind = "attr"      -> <<"a", "t", "t", "r">>
      [] kind = "other"     -> <<"k", "e", "y">>

\* Whether an attempt with this outcome got as far as calling the backend
\* (requests.post, generate_content). For ollama it does not: the argument
\* self.llm_url of requests.post is evaluated first, and raises.
SendsRequest(kind) == kind # "attr"

\* _get_questions: one topic per non-blank line.
GetQuestions(text) ==
    IF text = <<>> THEN <<>>
    ELSE LET lines == SelectSeq(Split(text, "\n"), LAMBDA l : Strip(l) # <<>>)
         IN  [i \in 1..Len(lines) |-> Strip(StripChars(lines[i], {"-", " "}))]

\* Mutant of InRange: the lower bound is left out, so that q_num = -1
\* indexes the last question.
InRangeNoLowerBound(q_num, n) == q_num < n

\* "if 0 <= q_num < len(questions)"
InRange(q_num, n) == 0 <= q_num /\ q_num < n

\* answers[q] = a
Assign(answers, q, a) ==
    [x \in DOMAIN answers \cup {q} |-> IF x = q THEN a ELSE answers[x]]

\* Mutant of ParseLine: the line number is taken as the 0-based index.
ParseLineOffByOne(raw, qs, answers) ==
    LET line == Strip(raw)
    IN  IF line = <<>> \/ line[1] \notin Digits THEN answers
        ELSE LET parts == SplitFirst(line, ".")
             IN  IF Len(parts) # 2 THEN answers
                 ELSE IF ~IntParses(parts[1]) THEN answers
                 ELSE LET q_num == IntValue(parts[1])
                          answer == Lower(Strip(parts[2]))
                      IN  IF InRange(q_num, Len(qs))
                          THEN Assign(answers, PyIndex(qs, q_num), answer)
                          ELSE answers

\* Mutant of ParseLine: the answer is not lower-cased.
ParseLineNoLower(raw, qs, answers) ==
    LET line == Strip(raw)
    IN  IF line = <<>> \/ line[1] \notin Digits THEN answers
        ELSE LET parts == SplitFirst(line, ".")
             IN  IF Len(parts) # 2 THEN answers
                 ELSE IF ~IntParses(parts[1]) THEN answers
                 ELSE LET q_num == IntValue(parts[1]) - 1
                          answer == Strip(parts[2])
                      IN  IF InRange(q_num, Len(qs))
                          THEN Assign(answers, PyIndex(qs, q_num), answer)
                          ELSE answers

\* One iteration of the parsing loop (lines 204-217) on one line.
ParseLine(raw, qs, answers) ==
    LET line == Strip(raw)
    IN  IF line = <<>> \/ line[1] \notin Digits THEN answers
        ELSE LET parts == SplitFirst(line, ".")
             IN  IF Len(parts) # 2 THEN answers
                 ELSE IF ~IntParses(parts[1]) THEN answers      \* ValueError
                 ELSE LET q_num == IntValue(parts[1]) - 1
                          answer == Lower(Strip(parts[2]))
                      IN  IF InRange(q_num, Len(qs))
                          THEN Assign(answers, PyIndex(qs, q_num), answer)
                          ELSE answers

RECURSIVE ParseLines(_, _, _)
ParseLines(lines, qs, answers) ==
    IF lines = <<>> THEN answers
    ELSE ParseLines(Tail(lines), qs, ParseLine(Head(lines), qs, answers))

\* The answers dictionary built from a response text.
ParseResponse(text, qs) == ParseLines(Split(text, "\n"), qs, <<>>)

\* Mutant of BuildResults: one result per answered question only.
BuildResultsAnswered(qs, answers) ==
    LET answered == SelectSeq(qs, LAMBDA q : q \in DOMAIN answers)
    IN  [i \in 1..Len(answered) |->
            [question |-> answered[i], is_relevant |-> (answers[answered[i]] = Yes),
             llm_response |-> answers[answered[i]]]]

\* Mutant of BuildResults: a question without an answer defaults to 'yes'.
BuildResultsDefaultYes(qs, answers) ==
    [i \in 1..Len(qs) |->
        LET answer == IF qs[i] \in DOMAIN answers THEN answers[qs[i]] ELSE Yes
        IN  [question |-> qs[i], is_relevant |-> (answer = Yes),
             llm_response |-> answer]]

\* Mutant of BuildResults: a question without an answer gets the empty
\* response instead of 'no'.
BuildResultsDefaultEmpty(qs, answers) ==
    [i \in 1..Len(qs) |->
        LET answer == IF qs[i] \in DOMAIN answers THEN answers[qs[i]] ELSE <<>>
        IN  [question |-> qs[i], is_relevant |-> (answer = Yes),
             llm_response |-> answer]]

\* Lines 223-232: one result per question, in the order of the questions.
BuildResults(qs, answers) ==
    [i \in 1..Len(qs) |->
        LET answer == IF qs[i] \in DOMAIN answers THEN answers[qs[i]] ELSE No
        IN  [question |-> qs[i], is_relevant |-> (answer = Yes),
             llm_response |-> answer]]

\* Mutant of ErrorResults: the message of the exception is not reported.
ErrorResultsUnknown(qs, last) ==
    [i \in 1..Len(qs) |->
        [question |-> qs[i], is_relevant |-> FALSE,
         llm_response |-> ErrorPrefix \o UnknownError]]

\* Lines 243-248: the results when every attempt failed.
ErrorResults(qs, last) ==
    LET error_msg == IF last # None THEN last ELSE UnknownError
    IN  [i \in 1..Len(qs) |->
            [question |-> qs[i], is_relevant |-> FALSE,
             llm_response |-> ErrorPrefix \o error_msg]]

\* Whether the inner handler of the backend takes the long cooldown:
\* a 429 (groq, ollama) or a quota ResourceExhausted (gemini), and not on
\* the last attempt.
LongCooldown(kind, att) ==
    /\ kind \in {"429", "quota"}
    /\ att < RETRY_COUNT - 1

\* Mutant of Cooldown: the last attempt is followed by a sleep as well.
CooldownAfterLast(kind, att) ==
    IF kind \in {"429", "quota"} THEN <<60>> ELSE <<5>>

\* The time.sleep of a failed attempt: 60 in the inner handlers, 5 in the
\* gemini handler and in the outer handler, none after the last attempt.
Cooldown(kind, att) ==
    IF LongCooldown(kind, att) THEN <<60>>
    ELSE IF att = RETRY_COUNT - 1 THEN <<>>
    ELSE <<5>>

\* The persistence collaborator's exists(url). database.py defines no
\* article_exists (the call at line 253 raises AttributeError, see
\* ProcessArticleRaises); this is the collaborator the specification
\* describes: whether the url is stored.
ArticleExists(table, url) == url \in table

\* Mutant of SaveArticle: nothing is stored.
SaveArticleDropped(table, url) == table

\* save_article: INSERT, and the IntegrityError of the UNIQUE url column
\* swallowed, so an existing url leaves the table as it is.
SaveArticle(table, url) == table \cup {url}

\* Mutant of SkipProcessed: a stored article is processed again.
NeverSkip(exists) == FALSE

\* "if self.db.article_exists(article['url']): return None"
SkipProcessed(exists) == exists

\* Mutant of VerifiedMatches: the verifications are not filtered.
VerifiedMatchesAll(vs) ==
    [i \in 1..Len(vs) |->
        [question |-> vs[i].question, llm_response |-> vs[i].llm_response]]

\* Lines 291-300: the matches of the relevant verifications.
VerifiedMatches(vs) ==
    LET rel == SelectSeq(vs, LAMBDA v : v.is_relevant)
    IN  [i \in 1..Len(rel) |->
            [question |-> rel[i].question, llm_response |-> rel[i].llm_response]]

\* Mutant of ShouldSave: every processed article is saved.
ShouldSaveAlways(matches) == TRUE

\* "if verified_matches:" before save_article (line 316).
ShouldSave(matches) == matches # <<>>

\* Mutant of ShouldYield: every returned article is yielded.
YieldReturned(returned, matches) == returned

\* "if processed_article and processed_article['matches']" of process_articles;
\* `returned` is whether process_article returned a dictionary.
ShouldYield(returned, matches) == returned /\ matches # <<>>

\* History: the requests the current _verify_with_llm call has sent to the
\* backend.
Requests == Cardinality({i \in DOMAIN attempt_log : SendsRequest(attempt_log[i])})

\* Mutant of NoTopics: the test is left out.
NoTopicsIgnored(qs) == FALSE

\* "if not questions: return None" of process_article (line 258).
NoTopics(qs) == qs = <<>>

\* History: how many verdicts of a list are relevant.
Relevant(vs) == Cardinality({i \in DOMAIN vs : vs[i].is_relevant})

MatchRest ==
    /\ db = {}
    /\ mpc = "idle"
    /\ caller = "pipeline"
    /\ articles = <<>>
    /\ art_idx = 1
    /\ questions = <<>>
    /\ attempt = 0
    /\ last_exception = None
    /\ response_text = None
    /\ verdicts = <<>>
    /\ attempt_log = <<>>
    /\ sleeps = <<>>
    /\ trace = <<>>
    /\ yielded = <<>>

MatchInit ==
    /\ llm_type \in LLMTypes
    /\ input_text \in InputTexts
    /\ MatchRest

\* No call of the matcher is in progress.
MatcherFree ==
    \/ mpc \in {"idle", "exhausted", "raised"}
    \/ mpc = "verified" /\ caller = "direct"

\* The state of a _verify_with_llm call that has just been entered.
EnterVerify(qs, who) ==
    /\ questions' = qs
    /\ caller' = who
    /\ attempt' = 0
    /\ last_exception' = None
    /\ response_text' = None
    /\ attempt_log' = <<>>
    /\ sleeps' = <<>>
    /\ IF qs = <<>>
       THEN mpc' = "verified" /\ verdicts' = <<>>       \* "if not questions: return []"
       ELSE mpc' = "verify" /\ verdicts' = <<>>

\* The locals of _verify_with_llm when no call of it is in progress.
NoVerify ==
    /\ questions' = <<>>
    /\ attempt' = 0
    /\ last_exception' = None
    /\ response_text' = None
    /\ verdicts' = <<>>
    /\ attempt_log' = <<>>
    /\ sleeps' = <<>>

\* Mutant of NextArticle: the loop passes over an article.
NextArticleSkipping ==
    /\ art_idx' = art_idx + 2
    /\ mpc' = IF art_idx + 2 > Len(articles) THEN "exhausted" ELSE "exists"
    /\ NoVerify

\* process_articles moves on to the next article, or is exhausted.
NextArticle ==
    /\ art_idx' = art_idx + 1
    /\ mpc' = IF art_idx + 1 > Len(articles) THEN "exhausted" ELSE "exists"
    /\ NoVerify

\* A consumer starts iterating process_articles(list).
ProcessArticles ==
    /\ MatcherFree
    /\ \E list \in ArticleLists :
          /\ articles' = list
          /\ mpc' = IF list = <<>> THEN "exhausted" ELSE "exists"
    /\ art_idx' = 1
    /\ caller' = "pipeline"
    /\ trace' = <<>>
    /\ yielded' = <<>>
    /\ NoVerify
    /\ UNCHANGED <<llm_type, input_text, db>>
    /\ UNCHANGED fetch_vars

\* process_article, line 253: self.db.article_exists raises (ArticleDatabase
\* of database.py has no such method: AttributeError). The call is outside
\* the try block of process_article, so the exception leaves process_article
\* and ends the generator.
ProcessArticleRaises ==
    /\ mpc = "exists"
    /\ mpc' = "raised"
    /\ UNCHANGED <<llm_type, input_text, db, caller, articles, art_idx, questions,
                   attempt, last_exception, response_text, verdicts, attempt_log,
                   sleeps, trace, yielded>>
    /\ UNCHANGED fetch_vars

\* process_article, lines 253-289, when the existence check answers: skip a
\* stored article, skip when there are no topics, else call _verify_with_llm.
ProcessArticleBegins ==
    /\ mpc = "exists"
    /\ LET url == articles[art_idx].url
           exists == ArticleExists(db, url)
           qs == GetQuestions(input_text)
       IN  IF SkipProcessed(exists) \/ NoTopics(qs)
           THEN /\ trace' = Append(trace, [url |-> url, exists |-> exists,
                                           asked |-> FALSE, requests |-> 0,
                                           relevant |-> 0,
                                           raised |-> FALSE, saved |-> FALSE,
                                           yielded |-> FALSE])
                /\ NextArticle
                /\ UNCHANGED caller
           ELSE /\ EnterVerify(qs, "pipeline")
                /\ UNCHANGED <<art_idx, trace>>
    /\ UNCHANGED <<llm_type, input_text, db, articles, yielded>>
    /\ UNCHANGED fetch_vars

\* _verify_with_llm is called directly with a topic list.
VerifyWithLLM ==
    /\ MatcherFree
    /\ \E qs \in DirectQuestions : EnterVerify(qs, "direct")
    \* the last process_articles run is over
    /\ articles' = <<>>
    /\ art_idx' = 1
    /\ trace' = <<>>
    /\ yielded' = <<>>
    /\ UNCHANGED <<llm_type, input_text, db>>
    /\ UNCHANGED fetch_vars

\* One iteration of the retry loop in which the backend answers with a text:
\* lines 202-232.
AttemptAnswers ==
    /\ mpc = "verify"
    /\ "text" \in AttemptOutcomes(llm_type)
    /\ \E text \in Responses :
          /\ response_text' = text
          /\ verdicts' = BuildResults(questions, ParseResponse(text, questions))
    /\ attempt_log' = Append(attempt_log, "text")
    /\ mpc' = "verified"
    /\ UNCHANGED <<llm_type, input_text, db, caller, articles, art_idx, questions,
                   attempt, last_exception, sleeps, trace, yielded>>
    /\ UNCHANGED fetch_vars

\* One iteration of the retry loop in which the attempt raises: the inner
\* handler of the backend and the outer handler (lines 234-240), then, after
\* the last attempt, lines 243-248.
AttemptFails ==
    /\ mpc = "verify"
    /\ \E kind \in AttemptOutcomes(llm_type) \ {"text"} :
          /\ last_exception' = Message(kind)
          /\ attempt_log' = Append(attempt_log, kind)
          /\ sleeps' = sleeps \o Cooldown(kind, attempt)
          /\ IF attempt < RETRY_COUNT - 1
             THEN /\ attempt' = attempt + 1
                  /\ UNCHANGED <<mpc, verdicts>>
             ELSE /\ verdicts' = ErrorResults(questions, Message(kind))
                  /\ mpc' = "verified"
                  /\ UNCHANGED attempt
    /\ UNCHANGED <<llm_type, input_text, db, caller, articles, art_idx, questions,
                   response_text, trace, yielded>>
    /\ UNCHANGED fetch_vars

\* process_article, lines 291-320, after _verify_with_llm returned, and the
\* test of process_articles: save_article stores the article or is a no-op,
\* and the article is yielded when it has matches.
ProcessArticleEnds ==
    /\ mpc = "verified"
    /\ caller = "pipeline"
    /\ LET url == articles[art_idx].url
           matches == VerifiedMatches(verdicts)
           out == ShouldYield(TRUE, matches)
       IN  /\ db' = IF ShouldSave(matches) THEN SaveArticle(db, url) ELSE db
           /\ yielded' = IF out THEN Append(yielded, [url |-> url, matches |-> matches])
                         ELSE yielded
           /\ trace' = Append(trace, [url |-> url, exists |-> ArticleExists(db, url),
                                      asked |-> TRUE, requests |-> Requests,
                                      relevant |-> Relevant(verdicts),
                                      raised |-> FALSE, saved |-> ShouldSave(matches),
                                      yielded |-> out])
    /\ NextArticle
    /\ UNCHANGED <<llm_type, input_text, caller, articles>>
    /\ UNCHANGED fetch_vars

\* process_article, lines 316-329: save_article raises something other than
\* an IntegrityError (the database is locked, say); the except branch returns
\* the article with no matches, which process_articles does not yield.
ProcessArticleSaveFails ==
    /\ mpc = "verified"
    /\ caller = "pipeline"
    /\ ShouldSave(VerifiedMatches(verdicts))
    /\ LET url == articles[art_idx].url
           out == ShouldYield(TRUE, <<>>)
       IN  /\ yielded' = IF out THEN Append(yielded, [url |-> url, matches |-> <<>>])
                         ELSE yielded
           /\ trace' = Append(trace, [url |-> url, exists |-> ArticleExists(db, url),
                                      asked |-> TRUE, requests |-> Requests,
                                      relevant |-> Relevant(verdicts),
                                      raised |-> TRUE, saved |-> FALSE,
                                      yielded |-> out])
    /\ NextArticle
    /\ UNCHANGED <<llm_type, input_text, db, caller, articles>>
    /\ UNCHANGED fetch_vars

\* Another process saves an article to the same articles.db: app.py and
\* telegram_bot.py each build an ArticleMatcher, whose ArticleDatabase opens
\* the same file.
OtherProcessSaves ==
    /\ \E url \in ArticleURLs : db' = SaveArticle(db, url)
    /\ UNCHANGED <<llm_type, input_text, mpc, caller, articles, art_idx, questions,
                   attempt, last_exception, response_text, verdicts, attempt_log,
                   sleeps, trace, yielded>>
    /\ UNCHANGED fetch_vars

MatchNext ==
    \/ ProcessArticles
    \/ ProcessArticleRaises
    \/ ProcessArticleBegins
    \/ VerifyWithLLM
    \/ AttemptAnswers
    \/ AttemptFails
    \/ ProcessArticleEnds
    \/ ProcessArticleSaveFails

(***************************************************************************)
(* Specifications                                                          *)
(***************************************************************************)

\* The matcher at rest, for the specifications of the fetcher.
MatchIdle ==
    /\ llm_type = "groq"
    /\ input_text = <<>>
    /\ MatchRest

\* The fetcher alone, with config.SOURCES as shipped; the matcher rests.
InitFetch ==
    /\ sources = SOURCES
    /\ FetchInit
    /\ MatchIdle

SpecFetch == InitFetch /\ [][FetchNext]_vars

\* The fetcher alone, with a News API source configured as well.
InitFetchNews ==
    /\ sources = SOURCES_WITH_NEWS
    /\ FetchInit
    /\ MatchIdle

FetchNewsNext ==
    \/ FetchNext
    \/ FetchNewsApiArticles

SpecFetchNews == InitFetchNews /\ [][FetchNewsNext]_vars

\* The matcher alone; the fetcher rests.
InitMatch ==
    /\ MatchInit
    /\ sources = SOURCES
    /\ FetchInit

SpecMatch == InitMatch /\ [][MatchNext]_vars

\* The matcher, and another process that writes to the same database.
MatchSharedNext ==
    \/ MatchNext
    \/ OtherProcessSaves

SpecMatchShared == InitMatch /\ [][MatchSharedNext]_vars

(***************************************************************************)
(* Claims about the fetcher (SpecFetch; C1 under SpecFetchNews)            *)
(***************************************************************************)

\* Whether a sequence of numbers never increases.
NonIncreasing(ns) == \A i \in 1..(Len(ns) - 1) : ns[i] >= ns[i + 1]

\* The stories the dedup loop of fetch_hacker_news looks at.
Considered == Truncate(Qualifying(SortByComments(all_stories)))

\* C1: in the list fetch_all_articles builds and returns, no two articles
\* have equal URLs after whitespace trimming, whatever the upstream answers.
C1_NoDuplicateUrls ==
    \A i, j \in DOMAIN all_articles :
        i # j => Normalize(all_articles[i].url) # Normalize(all_articles[j].url)

\* C1 witness: fetch_all_articles has returned two or more articles, one of
\* them from the News API source, and Hacker News offered that article's URL
\* again (differently spaced or not) among the stories it considered.
C1_Witness ==
    /\ fpc = "idle"
    /\ hn_status = "ok"
    /\ Len(all_articles) >= 2
    /\ \E i \in DOMAIN all_articles, k \in DOMAIN Considered :
          /\ all_articles[i].source = "news-a"
          /\ Normalize(Considered[k].url) = Normalize(all_articles[i].url)

\* C3: the seen-URL set is empty at the start of every fetch_all_articles
\* invocation (seen_at_cycle is the set as the last invocation found it).
C3_SeenEmptyAtCycleStart == seen_at_cycle = {}

\* C7: the list fetch_hacker_news returns never increases in hn_comments.
C7_SortedByComments ==
    NonIncreasing([i \in DOMAIN hn_articles |-> hn_articles[i].hn_comments])

\* C7 witness: the hits arrived in increasing order of comments, one of them
\* had no URL, more stories qualified than the limit keeps, and the returned
\* list has two articles with different counts.
C7_Witness ==
    /\ hn_status = "ok"
    /\ Len(hn_articles) >= 2
    /\ hn_articles[1].hn_comments > hn_articles[2].hn_comments
    /\ \E i \in DOMAIN all_stories : ~Truthy(all_stories[i].url)
    /\ Len(Qualifying(all_stories)) > MAX_ARTICLES_PER_SOURCE
    /\ \A i \in 1..(Len(all_stories) - 1) :
          all_stories[i].num_comments <= all_stories[i + 1].num_comments
    /\ all_stories[1].num_comments < all_stories[Len(all_stories)].num_comments

\* The precondition of C8: the accumulated URL-bearing hits are more than
\* MAX_ARTICLES_PER_SOURCE and their trimmed URLs are non-empty, pairwise
\* different and were not seen when the call began.
C8_Case ==
    LET q == Qualifying(all_stories)
    IN  /\ hn_status = "ok"
        /\ Len(q) > MAX_ARTICLES_PER_SOURCE
        /\ \A i \in DOMAIN q :
              /\ Normalize(q[i].url) # <<>>
              /\ Normalize(q[i].url) \notin seen_at_call
        /\ \A i, j \in DOMAIN q : i # j => Normalize(q[i].url) # Normalize(q[j].url)

\* C8: in that case fetch_hacker_news returns exactly MAX_ARTICLES_PER_SOURCE
\* articles, each one of the URL-bearing hits with its comment count, in
\* descending order, and no hit left out has more comments than one returned.
C8_TopByComments ==
    C8_Case =>
        LET q == Qualifying(all_stories)
            returned == {hn_articles[i].url : i \in DOMAIN hn_articles}
        IN  /\ Len(hn_articles) = MAX_ARTICLES_PER_SOURCE
            /\ NonIncreasing([i \in DOMAIN hn_articles |-> hn_articles[i].hn_comments])
            /\ \A i \in DOMAIN hn_articles : \E k \in DOMAIN q :
                  /\ q[k].url = hn_articles[i].url
                  /\ q[k].num_comments = hn_articles[i].hn_comments
            /\ \A i \in DOMAIN hn_articles, k \in DOMAIN q :
                  q[k].url \notin returned
                      => hn_articles[i].hn_comments >= q[k].num_comments

\* C8 witness: the case, with the hit that has most comments arriving last.
C8_Witness ==
    /\ C8_Case
    /\ \A i \in 1..(Len(all_stories) - 1) :
          all_stories[i].num_comments < all_stories[Len(all_stories)].num_comments

(***************************************************************************)
(* Claims about the matcher (checked under SpecMatch)                      *)
(***************************************************************************)

\* The number a response line carries when the parser reads one from it,
\* and -1 otherwise.
LineNumber(raw) ==
    LET line == Strip(raw)
    IN  IF line = <<>> \/ line[1] \notin Digits THEN -1
        ELSE LET parts == SplitFirst(line, ".")
             IN  IF Len(parts) # 2 \/ ~IntParses(parts[1]) THEN -1
                 ELSE IntValue(parts[1])

\* A response line whose number is outside 1..n.
OutOfRangeLine(raw, n) == LineNumber(raw) # -1 /\ LineNumber(raw) \notin 1..n

\* The current _verify_with_llm call has returned on an answer of the backend.
Answered == mpc = "verified" /\ response_text # None

\* C2: a returned _verify_with_llm call has one verdict per topic, the i-th
\* carrying the i-th topic, whatever the backend answered and however it
\* failed; with no topics it returns the empty list and nothing was attempted.
C2_OneVerdictPerTopic ==
    mpc = "verified" =>
        /\ Len(verdicts) = Len(questions)
        /\ \A i \in DOMAIN questions : verdicts[i].question = questions[i]
        /\ questions = <<>> => verdicts = <<>> /\ attempt_log = <<>>

\* C2 witness: a call with two topics returned on a response that left a
\* topic without an accepted answer line.
C2_Witness ==
    /\ Answered
    /\ Len(questions) = 2
    /\ \E i \in DOMAIN questions :
          questions[i] \notin DOMAIN ParseResponse(response_text, questions)

\* C4: process_articles ends only when its input is exhausted: when the
\* generator is over, every article of the input was dealt with.
C4_StopsOnlyWhenExhausted ==
    mpc \in {"exhausted", "raised"} => Len(trace) = Len(articles)

\* C5: every yielded article has matches, and an article is yielded only if
\* some verdict was relevant and process_article's except branch did not run.
C5_YieldedHaveMatches ==
    /\ \A i \in DOMAIN yielded : yielded[i].matches # <<>>
    /\ \A i \in DOMAIN trace :
          trace[i].yielded => trace[i].relevant > 0 /\ ~trace[i].raised

\* C5 witness: in one run an article was yielded and another one, whose
\* verdicts were all not-relevant, was dropped.
C5_Witness ==
    /\ yielded # <<>>
    /\ \E i \in DOMAIN trace :
          trace[i].asked /\ trace[i].relevant = 0 /\ ~trace[i].yielded

\* C6: an article whose URL the persistence collaborator reports as existing
\* is not yielded, the oracle is not called for it and it is not saved.
C6_ExistingIsSkipped ==
    \A i \in DOMAIN trace :
        trace[i].exists => ~trace[i].asked /\ ~trace[i].saved /\ ~trace[i].yielded

\* C6 witness: an article found existing was passed over, after the same
\* URL was yielded earlier in the run.
C6_Witness ==
    \E i, j \in DOMAIN trace :
        i < j /\ trace[i].yielded /\ trace[j].exists /\ trace[j].url = trace[i].url

\* C9: response lines numbered outside 1..N change no verdict: the verdicts
\* are those of the response without these lines.
C9_OutOfRangeDiscarded ==
    Answered =>
        verdicts = BuildResults(questions,
                      ParseLines(SelectSeq(Split(response_text, "\n"),
                                     LAMBDA l : ~OutOfRangeLine(l, Len(questions))),
                                 questions, <<>>))

\* C9 witness: two topics, and a response with a line numbered 3 or 0.
C9_Witness ==
    /\ Answered
    /\ Len(questions) = 2
    /\ \E l \in Range(Split(response_text, "\n")) : LineNumber(l) \in {0, 3}

\* The backend answered the current call with blank lines only.
BlankAnswered ==
    /\ Answered
    /\ questions # <<>>
    /\ \A l \in Range(Split(response_text, "\n")) : Strip(l) = <<>>

HasErrorPrefix(resp) ==
    Len(resp) >= Len(ErrorPrefix) /\ SubSeq(resp, 1, Len(ErrorPrefix)) = ErrorPrefix

\* C10 as stated: on blank-line answers the call uses all RETRY_COUNT
\* attempts and every verdict is not relevant with an 'Error: ...' response.
C10_BlankUsesAllAttempts ==
    BlankAnswered =>
        /\ Len(attempt_log) = RETRY_COUNT
        /\ \A i \in DOMAIN verdicts :
              ~verdicts[i].is_relevant /\ HasErrorPrefix(verdicts[i].llm_response)

\* C10 as amended: a blank-line answer ends the call on that attempt (no
\* later attempt, no sleep after it), every verdict is not relevant with the
\* response 'no', and the article is neither saved nor yielded.
C10_BlankIsNo ==
    /\ [](BlankAnswered =>
            /\ attempt_log[Len(attempt_log)] = "text"
            /\ Len(attempt_log) = attempt + 1
            /\ Len(sleeps) = attempt
            /\ \A i \in DOMAIN questions :
                  verdicts[i] = [question |-> questions[i], is_relevant |-> FALSE,
                                 llm_response |-> No])
    /\ [][BlankAnswered /\ caller = "pipeline"
            => yielded' = yielded /\ db' = db /\ ~trace'[Len(trace')].yielded]_vars

\* C10 witness: process_article got blank lines on the first attempt.
C10_Witness ==
    BlankAnswered /\ caller = "pipeline" /\ attempt = 0


(***************************************************************************)
(* Retries of _verify_with_llm (checked under SpecMatch)                   *)
(***************************************************************************)

\* The current _verify_with_llm call has returned after RETRY_COUNT attempts
\* that all raised.
AllFailed ==
    /\ mpc = "verified"
    /\ Len(attempt_log) = RETRY_COUNT
    /\ \A i \in DOMAIN attempt_log : attempt_log[i] # "text"

\* C11: when every attempt of a _verify_with_llm call raised, the call has
\* returned one verdict per topic, each not relevant and with the response
\* 'Error: ' followed by the message of the exception of the last attempt.
C11_ErrorVerdicts ==
    AllFailed =>
        /\ Len(verdicts) = Len(questions)
        /\ \A i \in DOMAIN questions :
              verdicts[i] = [question |-> questions[i], is_relevant |-> FALSE,
                             llm_response |->
                                 ErrorPrefix \o Message(attempt_log[RETRY_COUNT])]

\* C11 witness: a call with two topics failed three times, the last time with
\* another exception than the first time.
C11_Witness ==
    /\ AllFailed
    /\ Len(questions) = 2
    /\ Message(attempt_log[1]) # Message(attempt_log[RETRY_COUNT])

\* The cooldown the retry policy gives a failed attempt that is retried.
ExpectedSleep(kind) == IF kind \in {"429", "quota"} THEN 60 ELSE 5

\* C12: a _verify_with_llm call sleeps once after each failed attempt that is
\* followed by another attempt and at no other time (not after an answer,
\* not after the last attempt); the sleep is 60 after an HTTP 429 or a quota
\* ResourceExhausted and 5 after any other exception.
C12_Cooldowns ==
    /\ Len(sleeps) = Cardinality({i \in DOMAIN attempt_log :
                           attempt_log[i] # "text" /\ i < RETRY_COUNT})
    /\ \A i \in DOMAIN sleeps : sleeps[i] = ExpectedSleep(attempt_log[i])
    /\ mpc = "verified" /\ questions # <<>> => Len(sleeps) = Len(attempt_log) - 1

\* C12 witness: a call failed with a 429, then with another exception, then
\* with a 429 on the last attempt: it slept 60, then 5, and not a third time.
C12_Witness ==
    /\ AllFailed
    /\ attempt_log = <<"429", "http", "429">>
    /\ sleeps = <<60, 5>>

\* C13: a _verify_with_llm call sends at most RETRY_COUNT requests to the
\* backend, exactly RETRY_COUNT when every attempt fails, and none after the
\* first attempt that returned a response.
C13_RequestsSent ==
    /\ Requests <= RETRY_COUNT
    /\ AllFailed => Requests = RETRY_COUNT
    /\ \A i \in DOMAIN attempt_log : attempt_log[i] = "text" => i = Len(attempt_log)


(***************************************************************************)
(* The seen-URL set and the pagination (checked under SpecFetch)           *)
(***************************************************************************)

\* URLs _mark_if_new is called with: those of the upstream hits and
\* articles, the empty string and a blank one.
MarkInputs ==
    {h.url : h \in Hits} \cup {a.url : a \in NewsItems} \cup {<<>>, <<" ", "\t">>}

\* The trimmed URL of each of them.
Trimmed == [u \in MarkInputs |-> Normalize(u)]

\* The k-th story of the dedup loop is the first call of the session with
\* its trimmed URL: the URL is not blank, was not seen when the call began,
\* and no earlier story of the loop has it.
IsFirstCall(k) ==
    /\ Normalize(Considered[k].url) # <<>>
    /\ Normalize(Considered[k].url) \notin seen_at_call
    /\ \A j \in 1..(k - 1) :
          Normalize(Considered[j].url) # Normalize(Considered[k].url)

FirstCalls == SelectSeq([k \in DOMAIN Considered |-> k], IsFirstCall)

\* C14: reset_session is never called, so the session is the life of the
\* fetcher. On the seen set of any reachable state, _mark_if_new returns
\* true exactly for a non-blank trimmed URL that is not in the set, false for
\* None, empty and blank URLs, leaves the set as it is when it returns
\* false, and returns false for a later call with an equal trimmed URL; and
\* the articles fetch_hacker_news returned are those of the first calls.
C14_MarkIfNew ==
    /\ \A u \in MarkInputs :
          LET r == MarkIfNew(seen_urls, u)
          IN  /\ r.new <=> (Trimmed[u] # <<>> /\ Trimmed[u] \notin seen_urls)
              /\ ~r.new => r.seen = seen_urls
              /\ \A v \in MarkInputs :
                    Trimmed[v] = Trimmed[u] =>
                        MarkIfNew(r.seen, v) = [new |-> FALSE, seen |-> r.seen]
    /\ hn_status = "ok" =>
          /\ [i \in DOMAIN hn_articles |-> hn_articles[i].url]
                 = [i \in DOMAIN FirstCalls |-> Considered[FirstCalls[i]].url]
          /\ seen_urls = seen_at_call \cup
                 {Normalize(hn_articles[i].url) : i \in DOMAIN hn_articles}

\* C14 witness: in a later call of the session (the seen set was not empty
\* when it began) the dedup loop met two differently spaced URLs with the
\* same trimmed URL: the first was returned, the second was not.
C14_Witness ==
    /\ hn_status = "ok"
    /\ Len(Considered) = 2
    /\ Considered[1].url # Considered[2].url
    /\ Normalize(Considered[1].url) = Normalize(Considered[2].url)
    /\ Len(hn_articles) = 1
    /\ hn_articles[1].url = Considered[1].url
    /\ seen_at_call # {}


\* C15: when a request of the pagination loop failed, fetch_hacker_news has
\* returned (nothing was raised: fetch_all_articles went on and returned) the
\* empty list, whatever the earlier pages of the call brought; no URL of these
\* pages was marked as seen and none is in the list fetch_all_articles returns.
C15_FailedFetchIsEmpty ==
    hn_status = "failed" =>
        /\ fpc = "idle"
        /\ hn_articles = <<>>
        /\ seen_urls = seen_at_call
        /\ \A i \in DOMAIN all_articles : all_articles[i].source # "hacker-news"

\* C15 witness: the request failed after two pages had brought stories that
\* would have been returned.
C15_Witness ==
    /\ hn_status = "failed"
    /\ Len(all_stories) >= 2
    /\ HNCollect(all_stories, seen_urls).results # <<>>

\* The last response of the while loop brought no hits.
EmptyPage == data.hits = 0

\* The accumulated hits have reached the total the last response reports.
TotalReached == Len(all_stories) >= data.nbHits

\* The page-count ceiling is reached.
CeilingReached == page >= MAX_PAGES

\* C16 as stated: after a response, the loop has stopped only if the page
\* was empty, the reported total is reached or the ceiling is reached, and
\* it goes on to the next page when none of the three holds.
C16_ThreeStops ==
    data # NoData =>
        /\ fpc = "collected" => EmptyPage \/ TotalReached \/ CeilingReached
        /\ fpc = "paging" => ~EmptyPage /\ ~TotalReached /\ ~CeilingReached

\* C16 as amended: there is a fourth stop, the page just retrieved being the
\* last of the reported page count (page >= nbPages - 1, line 99); the loop
\* has stopped only on one of the four, and goes on to the next page (page
\* is then one more than the page retrieved) only when none of the four holds.
C16_FourStops ==
    data # NoData =>
        /\ fpc = "collected" =>
              \/ EmptyPage
              \/ TotalReached
              \/ CeilingReached
              \/ page >= data.nbPages - 1
        /\ fpc = "paging" =>
              /\ ~EmptyPage
              /\ ~TotalReached
              /\ ~CeilingReached
              /\ page - 1 < data.nbPages - 1

\* C16 witness: the loop stopped after its third page on the reported page
\* count alone: the page had a hit, the reported total was not reached and
\* neither was the ceiling.
C16_Witness ==
    /\ fpc = "collected"
    /\ data # NoData
    /\ ~EmptyPage /\ ~TotalReached /\ ~CeilingReached
    /\ page = 2
    /\ page >= data.nbPages - 1


(***************************************************************************)
(* Verdicts from a response (checked under SpecMatch)                      *)
(***************************************************************************)

\* The text after the first '.' of a response line, trimmed and lower-cased.
Token(raw) ==
    LET line == Strip(raw)
    IN  Lower(Strip(SubSeq(line, Find(line, ".") + 1, Len(line))))

\* The accepted answer lines of topic q in the response: the lines with a
\* number in 1..N whose position holds q. A topic is its text, so a text
\* that stands at two positions has the lines of both.
LinesFor(q) ==
    SelectSeq(Split(response_text, "\n"),
              LAMBDA l : /\ LineNumber(l) \in 1..Len(questions)
                         /\ questions[LineNumber(l)] = q)

\* C17: a topic with an accepted answer line is relevant exactly when the
\* token of that line (of the last one if there are several) is 'yes'.
C17_YesToken ==
    Answered =>
        \A i \in DOMAIN questions :
            LET ls == LinesFor(questions[i])
            IN  ls # <<>> =>
                    /\ verdicts[i].is_relevant <=> (Token(ls[Len(ls)]) = Yes)
                    /\ verdicts[i].llm_response = Token(ls[Len(ls)])

\* C17 witness: the first topic was answered with an upper-case YES and is
\* relevant, the second with 'yes.' and is not.
C17_Witness ==
    /\ Answered
    /\ Len(questions) = 2
    /\ questions[1] # questions[2]
    /\ Len(LinesFor(questions[1])) = 1
    /\ "Y" \in Range(LinesFor(questions[1])[1])
    /\ verdicts[1].is_relevant
    /\ Len(LinesFor(questions[2])) = 1
    /\ verdicts[2].llm_response = <<"y", "e", "s", ".">>
    /\ ~verdicts[2].is_relevant

\* C18: when the backend answered, a topic without an accepted answer line
\* has the verdict not relevant with the response 'no', and the call
\* returned on that attempt: the answer is its last attempt and its only one
\* that was answered.
C18_MissingIsNo ==
    Answered =>
        /\ \A i \in DOMAIN questions :
              LinesFor(questions[i]) = <<>> =>
                  verdicts[i] = [question |-> questions[i], is_relevant |-> FALSE,
                                 llm_response |-> No]
        /\ Len(attempt_log) = attempt + 1
        /\ \A k \in DOMAIN attempt_log :
              attempt_log[k] = "text" <=> k = Len(attempt_log)

\* C18 witness: after a failed attempt the backend answered 'yes' for the
\* first of two topics and nothing for the second.
C18_Witness ==
    /\ Answered
    /\ attempt = 1
    /\ Len(questions) = 2
    /\ verdicts[1].is_relevant
    /\ LinesFor(questions[2]) = <<>>


(***************************************************************************)
(* Topics (checked under SpecMatch)                                        *)
(***************************************************************************)

\* A line with only its leading "- " marker and the surrounding whitespace
\* removed.
WithoutMarker(line) ==
    LET t == Strip(line)
    IN  IF Len(t) >= 2 /\ SubSeq(t, 1, 2) = <<"-", " ">>
        THEN Strip(SubSeq(t, 3, Len(t)))
        ELSE t

\* One topic for each non-blank line of the text, marker removed.
MarkerlessTopics(text) ==
    LET lines == SelectSeq(Split(text, "\n"), LAMBDA l : Strip(l) # <<>>)
    IN  [i \in 1..Len(lines) |-> WithoutMarker(lines[i])]

\* C19: the topics process_article got from _get_questions are the
\* non-blank lines of the input text, in order, each with only its leading
\* "- " marker and the surrounding whitespace removed.
C19_OnlyMarkerRemoved ==
    mpc \in {"verify", "verified"} /\ caller = "pipeline" =>
        questions = MarkerlessTopics(input_text)


(***************************************************************************)
(* Saving and yielding (checked under SpecMatchShared)                     *)
(***************************************************************************)

\* C20: every yielded article was saved before (save_article was called and
\* returned normally, and the url is stored); an article whose url was
\* already stored when save_article was called is yielded all the same, and
\* that save leaves the table as it is.
C20_SavedBeforeYield ==
    /\ [](\A i \in DOMAIN trace :
            /\ trace[i].yielded =>
                  trace[i].saved /\ ~trace[i].raised /\ trace[i].url \in db
            /\ trace[i].asked /\ trace[i].exists /\ trace[i].saved =>
                  trace[i].yielded)
    /\ [][Len(trace') = Len(trace) + 1 /\ trace'[Len(trace')].exists
            => db' = db]_vars

\* C20 witness: an article was not stored at the existence check, another
\* process stored its url before save_article ran, and it was yielded.
C20_Witness ==
    \E i \in DOMAIN trace :
        trace[i].asked /\ trace[i].exists /\ trace[i].saved /\ trace[i].yielded


(***************************************************************************)
(* The loop of process_articles (checked under SpecMatch)                  *)
(***************************************************************************)

\* The URLs of the articles of the run that were yielded, in the order in
\* which the articles were dealt with.
YieldedOfTrace ==
    LET ys == SelectSeq(trace, LAMBDA t : t.yielded)
    IN  [i \in DOMAIN ys |-> ys[i].url]

\* C21: process_articles deals with the articles one at a time in input
\* order: the articles dealt with so far are the first ones of the input,
\* the article the loop is at (for which the oracle is or may be called) is
\* the next one, and the yielded articles are those of them that were
\* yielded, in input order.
C21_OneAtATime ==
    caller = "pipeline" =>
        /\ Len(trace) = art_idx - 1
        /\ Len(trace) <= Len(articles)
        /\ \A i \in DOMAIN trace : trace[i].url = articles[i].url
        /\ [i \in DOMAIN yielded |-> yielded[i].url] = YieldedOfTrace

\* C21 witness: the oracle call for the second article is in progress, the
\* first article, with another URL, has been yielded.
C21_Witness ==
    /\ caller = "pipeline"
    /\ mpc = "verify"
    /\ art_idx = 2
    /\ trace[1].yielded
    /\ articles[1].url # articles[2].url


\* The positions of the topic list whose verdict is relevant, in order.
RelevantPositions ==
    SelectSeq([i \in DOMAIN verdicts |-> i], LAMBDA i : verdicts[i].is_relevant)

\* C22: when process_articles yields an article, its matches are the topics
\* at the positions whose verdict is relevant, one match for each such
\* position, in the order of the topic list, each with the llm_response of
\* the verdict at that position.
C22_MatchesAreRelevantTopics ==
    [][mpc = "verified" /\ caller = "pipeline" /\ Len(yielded') = Len(yielded) + 1
         => LET m == yielded'[Len(yielded')].matches
            IN  /\ Len(m) = Len(RelevantPositions)
                /\ \A k \in DOMAIN m :
                      /\ m[k].question = questions[RelevantPositions[k]]
                      /\ m[k].llm_response = verdicts[RelevantPositions[k]].llm_response
                /\ yielded'[Len(yielded')].url = articles[art_idx].url]_vars

\* C22 witness: an article was yielded whose only match is the second of
\* two different topics.
C22_Witness ==
    /\ Len(GetQuestions(input_text)) = 2
    /\ GetQuestions(input_text)[1] # GetQuestions(input_text)[2]
    /\ \E i \in DOMAIN yielded :
          /\ Len(yielded[i].matches) = 1
          /\ yielded[i].matches[1].question = GetQuestions(input_text)[2]


(***************************************************************************)
(* Bounds of the fetcher (checked under SpecFetch)                         *)
(***************************************************************************)

\* C23: a request of the pagination loop is for page `page` and is made
\* when the fetcher is at "paging". The first request of a call is for page
\* 0, a request after which the loop goes on is followed by the request for
\* the next page, and no request is for a page beyond MAX_PAGES - 1: the loop
\* ends after MAX_PAGES requests at most, whatever the upstream reports.
C23_AtMostFivePages ==
    /\ [](fpc = "paging" => page \in 0..(MAX_PAGES - 1))
    /\ [](page <= MAX_PAGES)
    /\ [][fpc # "paging" /\ fpc' = "paging" => page' = 0]_vars
    /\ [][fpc = "paging" /\ fpc' = "paging" => page' = page + 1]_vars
    /\ [][fpc = "paging" /\ fpc' # "paging" => fpc' \in {"collected", "idle"}]_vars

\* C23 witness: the loop has ended on the ceiling after MAX_PAGES requests
\* that all brought a hit, the upstream still reporting more hits and more
\* pages.
C23_Witness ==
    /\ fpc = "collected"
    /\ page = MAX_PAGES
    /\ Len(all_stories) = MAX_PAGES
    /\ data.nbHits > Len(all_stories)
    /\ data.nbPages > MAX_PAGES


(***************************************************************************)
(* Calls of the oracle in a run (checked under SpecMatch)                  *)
(***************************************************************************)

RECURSIVE RequestsOf(_)
RequestsOf(entries) ==
    IF entries = <<>> THEN 0
    ELSE Head(entries).requests + RequestsOf(Tail(entries))

\* C24: in a process_articles run, _verify_with_llm is called at most once
\* for an article (the call in progress is for the article the loop is at,
\* which no earlier call was for), never for an article found stored nor
\* when there are no topics; a call sends at most RETRY_COUNT requests, and
\* the run has sent at most RETRY_COUNT requests for each article of the input.
C24_BoundedOracleCalls ==
    caller = "pipeline" =>
        /\ Len(trace) <= Len(articles)
        /\ mpc \in {"verify", "verified"} => Len(trace) = art_idx - 1
        /\ \A i \in DOMAIN trace :
              /\ trace[i].exists => ~trace[i].asked
              /\ GetQuestions(input_text) = <<>> => ~trace[i].asked
              /\ ~trace[i].asked => trace[i].requests = 0
              /\ trace[i].requests <= RETRY_COUNT
        /\ Requests <= RETRY_COUNT
        /\ RequestsOf(trace) + Requests <= RETRY_COUNT * Len(articles)
        /\ mpc = "exhausted" => Len(trace) = Len(articles)

\* C24 witness: a run over MaxArticles articles with two topics is over,
\* and it has sent RETRY_COUNT requests for each article.
C24_Witness ==
    /\ caller = "pipeline"
    /\ mpc = "exhausted"
    /\ Len(articles) = MaxArticles
    /\ Len(GetQuestions(input_text)) = 2
    /\ RequestsOf(trace) = RETRY_COUNT * Len(articles)


(***************************************************************************)
(* Lines and positions (checked under SpecMatch)                           *)
(***************************************************************************)

\* The lines of the response that carry the number n.
LinesNumbered(n) ==
    SelectSeq(Split(response_text, "\n"), LAMBDA l : LineNumber(l) = n)

\* C25 as stated: the verdict at position i is the one the response gives
\* when only its lines numbered i are kept (positions counted from 1).
C25_PositionalOnly ==
    Answered =>
        \A i \in DOMAIN questions :
            verdicts[i] =
                BuildResults(questions,
                             ParseLines(LinesNumbered(i), questions, <<>>))[i]

\* C25 as amended: the verdict at position i is the one the response gives
\* when only the accepted lines for the topic text of position i are kept,
\* that is the lines numbered for any position that holds this text.
C25_ByTopicText ==
    Answered =>
        \A i \in DOMAIN questions :
            verdicts[i] =
                BuildResults(questions,
                             ParseLines(LinesFor(questions[i]), questions, <<>>))[i]

\* C25 witness: the same topic text stands at positions 1 and 2, the
\* response has no line numbered 2, and the verdict at position 2 is
\* relevant by a line numbered 1.
C25_Witness ==
    /\ Answered
    /\ Len(questions) = 2
    /\ questions[1] = questions[2]
    /\ LinesNumbered(2) = <<>>
    /\ LinesNumbered(1) # <<>>
    /\ verdicts[2].is_relevant


(***************************************************************************)
(* Truncation and marking (SpecFetch; C28 under SpecFetchNews)             *)
(***************************************************************************)

\* C26: fetch_hacker_news returns at most MAX_ARTICLES_PER_SOURCE articles,
\* all of them among the first MAX_ARTICLES_PER_SOURCE URL-bearing stories by
\* comments: each of these that is blank, a duplicate or already seen makes
\* the list one shorter, and no lower-ranked story takes its place.
C26_TruncatedBeforeDedup ==
    /\ Len(hn_articles) <= MAX_ARTICLES_PER_SOURCE
    /\ hn_status = "ok" =>
          /\ Len(hn_articles) =
                 Len(Considered)
                   - Cardinality({k \in DOMAIN Considered : ~IsFirstCall(k)})
          /\ \A i \in DOMAIN hn_articles :
                \E k \in DOMAIN Considered :
                    /\ hn_articles[i].url = Considered[k].url
                    /\ hn_articles[i].hn_comments = Considered[k].num_comments

\* C26 witness: more stories qualified than the limit, one of the top ones
\* had been seen in an earlier call, fewer articles than the limit were
\* returned, and a lower-ranked story with a URL never seen was left out.
C26_Witness ==
    /\ hn_status = "ok"
    /\ Len(hn_articles) < MAX_ARTICLES_PER_SOURCE
    /\ Len(Considered) = MAX_ARTICLES_PER_SOURCE
    /\ \E k \in DOMAIN Considered : Normalize(Considered[k].url) \in seen_at_call
    /\ \E s \in Range(Qualifying(all_stories)) :
          Normalize(s.url) # <<>> /\ Normalize(s.url) \notin seen_urls


(***************************************************************************)
(* The store over several runs (checked under SpecMatch)                   *)
(***************************************************************************)

C29_TopicsNonEmpty ==
    mpc \in {"verify", "verified"} /\ caller = "pipeline" =>
        \A i \in DOMAIN questions : questions[i] # <<>>

\* C30: a URL enters the store only when process_article saves an article
\* that has a relevant verdict; an article without one, whether the oracle
\* answered or failed on every attempt, and one for which process_article's
\* except branch ran, leaves the store as it is; and an article that is not
\* stored is verified when it is presented, unless there are no topics or
\* the existence check raises.
C30_OnlyMatchedAreStored ==
    /\ [](\A i \in DOMAIN trace :
            trace[i].saved => trace[i].relevant > 0 /\ ~trace[i].raised)
    /\ [][db' # db
            => /\ mpc = "verified" /\ caller = "pipeline"
               /\ Relevant(verdicts) > 0
               /\ db' = db \cup {articles[art_idx].url}]_vars
    /\ [][Len(trace') = Len(trace) + 1 /\ ~trace'[Len(trace')].saved
            => db' = db]_vars
    /\ [][(/\ mpc = "exists" /\ mpc' \notin {"exists", "raised"}
           /\ articles[art_idx].url \notin db
           /\ GetQuestions(input_text) # <<>>)
            => mpc' = "verify" /\ art_idx' = art_idx]_vars

\* C30 witness: an article was dropped after RETRY_COUNT attempts with no
\* relevant verdict, the store is empty, and the oracle is being asked
\* about the same URL again.
C30_Witness ==
    /\ caller = "pipeline"
    /\ mpc = "verify"
    /\ art_idx = 2
    /\ articles[2].url = articles[1].url
    /\ trace[1].asked /\ trace[1].relevant = 0 /\ ~trace[1].saved
    /\ trace[1].requests = RETRY_COUNT
    /\ db = {}

=============================================================================
